---- MODULE Spec2Model ----
(***************************************************************************)
(* Model of the query relay POST /api/ai                                   *)
(* (src/frontend/app/api/ai/routes.ts).                                    *)
(*                                                                         *)
(* JavaScript values are tagged records: the field k names the kind.       *)
(* Strings are sequences of one-character strings.  The raw text of the    *)
(* language model is a sequence of tokens (braces, prose, key/value        *)
(* members of a JSON object).                                              *)
(***************************************************************************)
EXTENDS Integers, Sequences, FiniteSets, TLC

VARIABLES pc, hasKey, request, query, fetchResult, products, fetchCalls,
          modelCalls, prompt, modelResult, path, response,
          dbRow, dbStmt,
          loadedProducts, productsLoading, searchTerm, selectedCategory,
          aiQuery, currentPage, itemsPerPage, storedAiResponse,
          aiLoading, inFlight, aiCalls, effectDeps,
          pageInput, pageNumbers,
          clientPc, clientPrompt, clientOutcome, clientResult

\* the state of one relay request
relayVars == <<pc, hasKey, request, query, fetchResult, products, fetchCalls,
               modelCalls, prompt, modelResult, path, response>>

\* one row of the products table and the last statement run against it
dbVars == <<dbRow, dbStmt>>

\* the state of the Dashboard component: its useState cells, the data of the
\* products query, the AI requests that have not settled, and the dependency
\* values the reset effect last ran with
uiVars == <<loadedProducts, productsLoading, searchTerm, selectedCategory,
            aiQuery, currentPage, itemsPerPage, storedAiResponse,
            aiLoading, inFlight, aiCalls, effectDeps>>

\* one call of getPageNumbers: its inputs and its result
pageVars == <<pageInput, pageNumbers>>

\* one call of queryGemini: its position, the prompt it built, what the model
\* call gave and what the call gave its caller
clientVars == <<clientPc, clientPrompt, clientOutcome, clientResult>>

vars == <<relayVars, dbVars, uiVars, pageVars, clientVars>>

\* ---------------------------------------------------------------- bounds
MaxCents == 12
MaxQueryLen == 2
MaxProducts == 11
MaxSuggestions == 4

\* ---------------------------------------------------- program constants
AnswerLimit == 500
SampleSize == 10
MaxRecommended == 5

\* ---------------------------------------------------- JavaScript values
Undefined == [k |-> "undefined"]
JsNull == [k |-> "null"]
Str(s) == [k |-> "str", s |-> s]
Num(n) == [k |-> "num", n |-> n]
Arr(a) == [k |-> "arr", a |-> a]
RawText(t) == [k |-> "text", toks |-> t]
NotAList == [k |-> "object"]

\* truthiness of a value, as used by !query, ?: and ||
Truthy(v) ==
  CASE v.k = "undefined" -> FALSE
    [] v.k = "null" -> FALSE
    [] v.k = "str" -> v.s # <<>>
    [] v.k = "num" -> v.n # 0
    [] v.k = "text" -> v.toks # <<>>
    [] OTHER -> TRUE

\* a || b with the right operand dropped
JsOr_LeftOnly(a, b) == a

\* a || b
JsOr(a, b) == IF Truthy(a) THEN a ELSE b

\* String.prototype.toLowerCase, one character
LowerChar(c) ==
  CASE c = "A" -> "a"
    [] c = "B" -> "b"
    [] OTHER -> c

toLowerCase(s) == [i \in 1..Len(s) |-> LowerChar(s[i])]

\* String.prototype.includes
includes(s, sub) ==
  \E i \in 0..(Len(s) - Len(sub)) : SubSeq(s, i + 1, i + Len(sub)) = sub

\* Array.prototype.slice(0, n)
slice(a, n) == SubSeq(a, 1, IF Len(a) < n THEN Len(a) ELSE n)

\* p.field?.toLowerCase().includes(queryLower)
FieldMatches(f, queryLower) ==
  IF f.k = "str" THEN includes(toLowerCase(f.s), queryLower) ELSE FALSE


\* ------------------------------------------------------------- catalog
Product(sku, name, category, manufacturer, price) ==
  [sku |-> sku, name |-> name, category |-> category,
   manufacturer |-> manufacturer, price |-> Num(price), in_stock |-> TRUE]

\* a catalog whose records match queries through different fields, with
\* missing (undefined or null) fields, in an order that is not the SKU order
Catalog ==
  << Product(Str(<<"5">>), Str(<<"b", "a">>), Str(<<"x">>), JsNull, 5),
     Product(Str(<<"2">>), Str(<<"x">>), Str(<<"A", "b">>), Str(<<"y">>), 2),
     Product(Str(<<"7">>), Str(<<"a", "a">>), JsNull, Str(<<"B", "b">>), 7),
     Product(Str(<<"1">>), Str(<<"a", " ", "x">>), Str(<<"x">>), Str(<<"y">>), 1),
     Product(Str(<<"a", "4">>), Undefined, Str(<<"x">>), Undefined, 4),
     Product(Str(<<"6">>), Str(<<"A">>), Str(<<"x">>), Str(<<"a">>), 6),
     Product(Str(<<"3">>), Str(<<"x">>), Str(<<"x">>), Str(<<"B">>), 3),
     Product(Str(<<"8">>), Str(<<"x">>), Str(<<"y">>), Str(<<"x">>), 8),
     Product(Str(<<"9">>), Str(<<"y">>), Str(<<"x">>), Str(<<"x">>), 9),
     Product(Str(<<"c">>), Str(<<"x", "y">>), Str(<<"x">>), Str(<<"y">>), 10),
     Product(Str(<<"d">>), Str(<<"y">>), Str(<<"y">>), JsNull, 11),
     Product(Str(<<"e">>), Str(<<"x">>), Str(<<"y">>), Str(<<"b">>), 12) >>

\* the product lists the catalog API can return: the runs of Catalog
ProductLists ==
  { SubSeq(Catalog, w[1], w[2]) :
      w \in { v \in (1..Len(Catalog)) \X (0..Len(Catalog)) :
                v[2] - v[1] + 1 <= MaxProducts } }

\* what GET /api/products can yield: a thrown fetch, a body that is not
\* JSON, a JSON value that is not an array (an error object), or a list
FetchOutcomes ==
  { [k |-> "throw"], [k |-> "badjson"], NotAList }
    \cup { Arr(l) : l \in ProductLists }

\* ------------------------------------------------------- request bodies
QueryChars == {"a", "B", " "}

RECURSIVE StringsUpTo(_)
StringsUpTo(n) ==
  IF n = 0 THEN { <<>> }
  ELSE LET shorter == StringsUpTo(n - 1)
       IN  shorter \cup { Append(s, c) : s \in shorter, c \in QueryChars }

QueryStrings == StringsUpTo(MaxQueryLen)

QueryValues ==
  { Undefined, JsNull, Num(0), Num(1) } \cup { Str(s) : s \in QueryStrings }

\* the JSON bodies a caller can send; "badjson" is a body request.json() rejects
Bodies ==
  { [k |-> "badjson"], JsNull, Num(1) }
    \cup { [k |-> "object", query |-> q] : q \in QueryValues }

\* await request.json() rejects when the body is not JSON
JsonThrows(body) == body.k = "badjson"

\* const { query } = body : a TypeError on null, undefined on a primitive
DestructureThrows(body) == body.k = "null"

DestructureQuery(body) == IF body.k = "object" THEN body.query ELSE Undefined


\* ----------------------------------------------------- model raw text
LB == [t |-> "{"]
RB == [t |-> "}"]
TXT == [t |-> "txt"]
Member(key, v) == [t |-> "member", key |-> key, v |-> v]

SuggestionPool ==
  << Str(<<"s1">>), Str(<<"s2">>), Str(<<"s3">>), Str(<<"s4">>), Str(<<"s5">>), Str(<<"s6">>) >>

AnswerOpts ==
  { <<>>, << Member("answer", Str(<<"o", "k">>)) >>, << Member("answer", Str(<<>>)) >> }

\* the SKU of every record of the catalog, in catalog order
AllSkus == [i \in 1..Len(Catalog) |-> Catalog[i].sku]

SkuValues ==
  { Arr(<<>>), Arr(<< Str(<<"e">>), Str(<<"2">>) >>), Arr(<< Str(<<"z">>) >>),
    Arr(AllSkus), Str(<<"7">>), Num(1), JsNull }

SuggestionOpts ==
  { <<>> } \cup
  { << Member("suggestions", Arr(SubSeq(SuggestionPool, 1, n))) >> : n \in 0..MaxSuggestions }

\* the member lists of the JSON objects the model may write
ModelObjects ==
  { a \o s : a \in AnswerOpts, s \in SuggestionOpts }
    \cup { a \o << Member("productSkus", v) >> \o s :
             a \in { <<>>, << Member("answer", Str(<<"o", "k">>)) >> },
             v \in SkuValues,
             s \in { <<>>, << Member("suggestions", Arr(SubSeq(SuggestionPool, 1, 3))) >> } }

SampleObject ==
  << Member("answer", Str(<<"o", "k">>)),
     Member("productSkus", Arr(<< Str(<<"e">>), Str(<<"2">>) >>)),
     Member("suggestions", Arr(SubSeq(SuggestionPool, 1, 3))) >>

\* prose one character longer than the answer may be
LongText == [i \in 1..(AnswerLimit + 1) |-> TXT]

\* the raw texts response.text() may return
ModelTexts ==
  { <<LB>> \o o \o <<RB>> : o \in ModelObjects }
    \cup { <<>>, LongText, <<TXT>>, <<TXT, LB, TXT>>, <<RB, TXT, LB>>, <<LB, TXT, RB>>,
           <<TXT, LB>> \o SampleObject \o <<RB, TXT>>,
           <<LB>> \o SampleObject \o <<RB, TXT, LB, RB>>,
           <<LB>> \o SampleObject \o <<RB, TXT, RB>> }

\* generateContent rejects (or response.text() throws), or a text comes back
ModelOutcomes == { [k |-> "throw"] } \cup { RawText(t) : t \in ModelTexts }

\* text.match(/\{[\s\S]*\}/) : from the first "{" to the last "}" after it
HasJsonMatch(text) ==
  \E i \in 1..Len(text) :
    text[i] = LB /\ \E j \in (i + 1)..Len(text) : text[j] = RB

JsonMatch(text) ==
  LET i == CHOOSE x \in 1..Len(text) :
             text[x] = LB /\ \A y \in 1..(x - 1) : text[y] # LB
      j == CHOOSE x \in 1..Len(text) :
             text[x] = RB /\ \A y \in (x + 1)..Len(text) : text[y] # RB
  IN  SubSeq(text, i, j)

\* JSON.parse accepts "{" members "}" and nothing else
JsonParseThrows(m) ==
  ~ ( /\ Len(m) >= 2
      /\ m[1] = LB
      /\ m[Len(m)] = RB
      /\ \A i \in 2..(Len(m) - 1) : m[i].t = "member" )

\* obj[key] of the parsed object: the last member of that key, else undefined
Property(m, key) ==
  LET hits == { i \in 1..Len(m) : m[i].t = "member" /\ m[i].key = key }
  IN  IF hits = {} THEN Undefined
      ELSE m[CHOOSE i \in hits : \A h \in hits : h <= i].v


\* ------------------------------------------------------------ responses
\* NextResponse.json(fields, {status}); a field that is not written is undefined
Response(status, error, answer, recommended, suggestions) ==
  [status |-> status, error |-> error, answer |-> answer,
   recommendedProducts |-> recommended, relatedSuggestions |-> suggestions]

NoResponse == Response(0, Undefined, Undefined, Undefined, Undefined)

\* a template literal: its fixed text is named by id, its holes are kept
Template(id, count, q, top) ==
  [k |-> "template", id |-> id, count |-> count, query |-> q, top |-> top]

DefaultSuggestions ==
  Arr(<< Str(<<"Try filtering by brand">>),
          Str(<<"Check product compatibility">>),
          Str(<<"View similar items">>) >>)

GeminiErrorSuggestions ==
  Arr(<< Str(<<"Check product availability">>),
          Str(<<"View specifications">>),
          Str(<<"Compare prices">>) >>)

NoKeySuggestions ==
  Arr(<< Str(<<"Try searching by brand">>),
          Str(<<"Look for specific part types">>),
          Str(<<"Check compatibility">>) >>)

ServerErrorSuggestions ==
  Arr(<< Str(<<"Try a simpler search">>),
          Str(<<"Contact support">>),
          Str(<<"Browse categories">>) >>)

BadRequest ==
  Response(400, Str(<<"Query is required">>), Undefined, Undefined, Undefined)

\* the 500 response without its recommendedProducts field
ServerError_NoProducts ==
  Response(500, Str(<<"Failed to process query">>),
           Str(<<"Sorry, I encountered an error. Please try again.">>),
           Undefined, ServerErrorSuggestions)

ServerError ==
  Response(500, Str(<<"Failed to process query">>),
           Str(<<"Sorry, I encountered an error. Please try again.">>),
           Arr(<<>>), ServerErrorSuggestions)

\* ------------------------------------------------------------- matchers
\* the no-key filter with the manufacturer test left out
NoKeyFilter_NoManufacturer(list, q) ==
  LET queryLower == toLowerCase(q.s)
  IN  slice(SelectSeq(list, LAMBDA p :
                \/ FieldMatches(p.name, queryLower)
                \/ FieldMatches(p.category, queryLower)
                \/ FieldMatches(p.sku, queryLower)),
            MaxRecommended)

\* the filter of the no-key branch: name, category, sku, manufacturer
NoKeyFilter(list, q) ==
  LET queryLower == toLowerCase(q.s)
  IN  slice(SelectSeq(list, LAMBDA p :
                \/ FieldMatches(p.name, queryLower)
                \/ FieldMatches(p.category, queryLower)
                \/ FieldMatches(p.sku, queryLower)
                \/ FieldMatches(p.manufacturer, queryLower)),
            MaxRecommended)

\* the filter of the Gemini branch when the SKU mapping is empty
EmptyMappingFilter(list, q) ==
  LET queryLower == toLowerCase(q.s)
  IN  slice(SelectSeq(list, LAMBDA p :
                \/ FieldMatches(p.name, queryLower)
                \/ FieldMatches(p.category, queryLower)
                \/ FieldMatches(p.sku, queryLower)),
            MaxRecommended)

\* the filter of the Gemini catch block
GeminiErrorFilter(list, q) ==
  LET queryLower == toLowerCase(q.s)
  IN  slice(SelectSeq(list, LAMBDA p :
                \/ FieldMatches(p.name, queryLower)
                \/ FieldMatches(p.category, queryLower)
                \/ FieldMatches(p.sku, queryLower)),
            MaxRecommended)

\* aiResponse.productSkus.includes(p.sku) for an array or a string
SkuListed(skus, sku) ==
  IF skus.k = "arr" THEN \E i \in 1..Len(skus.a) : skus.a[i] = sku
  ELSE sku.k = "str" /\ includes(skus.s, sku.s)

\* the SKU mapping without its .slice(0, 5)
MapSkus_Uncapped(list, skus) ==
  SelectSeq(list, LAMBDA p : SkuListed(skus, p.sku))

\* the SKU mapping with the slice starting one place late: .slice(1, 6)
MapSkus_SkipFirst(list, skus) ==
  LET found == SelectSeq(list, LAMBDA p : SkuListed(skus, p.sku))
  IN  slice(IF found = <<>> THEN <<>> ELSE Tail(found), MaxRecommended)

\* the SKU mapping run over the 10-product sample of the prompt only
MapSkus_SampleOnly(list, skus) ==
  slice(SelectSeq(slice(list, SampleSize), LAMBDA p : SkuListed(skus, p.sku)),
        MaxRecommended)

\* the SKU mapping that walks the model's SKU list and looks each SKU up
RECURSIVE InModelOrder(_, _)
InModelOrder(list, named) ==
  IF named = <<>> THEN <<>>
  ELSE SelectSeq(list, LAMBDA p : p.sku = named[1]) \o InModelOrder(list, Tail(named))

MapSkus_ModelOrder(list, skus) ==
  IF skus.k = "arr" THEN slice(InModelOrder(list, skus.a), MaxRecommended)
  ELSE slice(SelectSeq(list, LAMBDA p : SkuListed(skus, p.sku)), MaxRecommended)

\* products.filter(p => aiResponse.productSkus.includes(p.sku)).slice(0, 5)
MapSkus(list, skus) ==
  slice(SelectSeq(list, LAMBDA p : SkuListed(skus, p.sku)), MaxRecommended)


\* ------------------------------------------------------- Gemini branch
NoPrompt == [query |-> Undefined, sample |-> <<>>, total |-> 0]

\* the sample of queryGemini: ten whole records, every field included
Projection_WholeRecords(list) == slice(list, SampleSize)

\* products.slice(0, 10).map(p => ({sku, name, category, price, in_stock}))
Projection(list) ==
  LET sample == slice(list, SampleSize)
  IN  [i \in 1..Len(sample) |->
         [sku |-> sample[i].sku, name |-> sample[i].name,
          category |-> sample[i].category, price |-> sample[i].price,
          in_stock |-> sample[i].in_stock]]

BuildPrompt(q, list) == [query |-> q, sample |-> Projection(list), total |-> Len(list)]

\* the text cannot be turned into an object: no match, or JSON.parse throws
ParseFails(text) == ~ HasJsonMatch(text) \/ JsonParseThrows(JsonMatch(text))

\* the parse fallback without its length limit
ParseModelText_NoLimit(text) ==
  IF ParseFails(text)
  THEN [answer |-> RawText(text),
        productSkus |-> Arr(<<>>), suggestions |-> Arr(<<>>)]
  ELSE LET m == JsonMatch(text)
       IN  [answer |-> Property(m, "answer"),
            productSkus |-> Property(m, "productSkus"),
            suggestions |-> Property(m, "suggestions")]

\* aiResponse after the inner try/catch
ParseModelText(text) ==
  IF ParseFails(text)
  THEN [answer |-> RawText(slice(text, AnswerLimit)),
        productSkus |-> Arr(<<>>), suggestions |-> Arr(<<>>)]
  ELSE LET m == JsonMatch(text)
       IN  [answer |-> Property(m, "answer"),
            productSkus |-> Property(m, "productSkus"),
            suggestions |-> Property(m, "suggestions")]

\* a recommended-products expression throws: .includes is not a function
MapSkusThrows(list, skus) ==
  Truthy(skus) /\ skus.k \notin {"arr", "str"} /\ list # <<>>

\* the catch block reporting the size of the catalog instead of the matches
GeminiErrorResponse_CountsAll(q, list) ==
  LET filteredProducts == GeminiErrorFilter(list, q)
  IN  Response(200, Undefined,
               Template("I found", Len(list), q,
                        IF Len(filteredProducts) > 0
                        THEN << filteredProducts[1].name >> ELSE <<>>),
               Arr(filteredProducts), GeminiErrorSuggestions)

\* the response of the catch (geminiError) block
GeminiErrorResponse(q, list) ==
  LET filteredProducts == GeminiErrorFilter(list, q)
  IN  Response(200, Undefined,
               Template("I found", Len(filteredProducts), q,
                        IF Len(filteredProducts) > 0
                        THEN << filteredProducts[1].name >> ELSE <<>>),
               Arr(filteredProducts), GeminiErrorSuggestions)

\* the response of the no-key branch
NoKeyResponse(q, list) ==
  LET filteredProducts == NoKeyFilter(list, q)
  IN  Response(200, Undefined,
               Template("Found", Len(filteredProducts), q,
                        IF Len(filteredProducts) > 0
                        THEN << filteredProducts[1].name, filteredProducts[1].sku,
                                filteredProducts[1].price >>
                        ELSE <<>>),
               Arr(filteredProducts), NoKeySuggestions)

\* the response at the end of the try block of the Gemini branch
GeminiResponse(q, list, aiResponse) ==
  LET mapped == IF Truthy(aiResponse.productSkus)
                THEN MapSkus(list, aiResponse.productSkus) ELSE <<>>
      recommendedProducts ==
        IF Len(mapped) = 0 THEN mapped \o EmptyMappingFilter(list, q) ELSE mapped
  IN  Response(200, Undefined,
               JsOr(aiResponse.answer,
                    Template("interest", Len(recommendedProducts), Undefined, <<>>)),
               Arr(recommendedProducts),
               JsOr(aiResponse.suggestions, DefaultSuggestions))


\* ------------------------------------------------------ products table
\* DECIMAL(10, 2) values are counted in cents, DECIMAL(5, 2) in hundredths
SqlNull == [k |-> "null"]
Dec(n) == [k |-> "dec", n |-> n]

\* the prices and costs a statement may write
DecValues == { SqlNull } \cup { Dec(n) : n \in 0..MaxCents }

\* DECIMAL(5, 2) holds absolute values below 10^3, that is 100000 hundredths
MarginLimit == 100000

Abs(x) == IF x < 0 THEN 0 - x ELSE x

\* a / b rounded to the nearest integer, halves away from zero (b > 0)
RoundedQuotient(a, b) ==
  IF a >= 0 THEN (2 * a + b) \div (2 * b)
  ELSE 0 - ((2 * (0 - a) + b) \div (2 * b))

\* CASE WHEN price > 0 AND cost > 0 THEN ((price - cost) / price * 100)
\* ELSE NULL END, in hundredths before the column's precision is applied
MarginExpression(price, cost) ==
  IF price.k = "dec" /\ cost.k = "dec" /\ price.n > 0 /\ cost.n > 0
  THEN Dec(RoundedQuotient((price.n - cost.n) * 10000, price.n))
  ELSE SqlNull

\* storing the value in DECIMAL(5, 2) raises "numeric field overflow"
MarginOverflows(price, cost) ==
  LET m == MarginExpression(price, cost)
  IN  m.k = "dec" /\ Abs(m.n) >= MarginLimit

NoRow == [present |-> FALSE, price |-> SqlNull, cost |-> SqlNull, margin |-> SqlNull]

NoStmt == [kind |-> "none", price |-> SqlNull, cost |-> SqlNull, ok |-> TRUE]

\* the row a statement leaves: the new row, or the old one when it fails
WriteRow(price, cost) ==
  IF MarginOverflows(price, cost) THEN dbRow
  ELSE [present |-> TRUE, price |-> price, cost |-> cost,
        margin |-> MarginExpression(price, cost)]

\* INSERT INTO products (sku, name, category, price, cost) VALUES (...)
InsertProduct ==
  /\ ~ dbRow.present
  /\ \E price \in DecValues, cost \in DecValues :
       /\ dbRow' = WriteRow(price, cost)
       /\ dbStmt' = [kind |-> "insert", price |-> price, cost |-> cost,
                     ok |-> ~ MarginOverflows(price, cost)]
  /\ UNCHANGED <<relayVars, uiVars, pageVars, clientVars>>

\* UPDATE products SET price = ... WHERE sku = ...
UpdatePrice ==
  /\ dbRow.present
  /\ \E price \in DecValues :
       /\ dbRow' = WriteRow(price, dbRow.cost)
       /\ dbStmt' = [kind |-> "update", price |-> price, cost |-> dbRow.cost,
                     ok |-> ~ MarginOverflows(price, dbRow.cost)]
  /\ UNCHANGED <<relayVars, uiVars, pageVars, clientVars>>

\* UPDATE products SET cost = ... WHERE sku = ...
UpdateCost ==
  /\ dbRow.present
  /\ \E cost \in DecValues :
       /\ dbRow' = WriteRow(dbRow.price, cost)
       /\ dbStmt' = [kind |-> "update", price |-> dbRow.price, cost |-> cost,
                     ok |-> ~ MarginOverflows(dbRow.price, cost)]
  /\ UNCHANGED <<relayVars, uiVars, pageVars, clientVars>>

\* UPDATE products SET margin_percentage = ... : refused, the column is
\* GENERATED ALWAYS
WriteMargin ==
  /\ dbRow.present
  /\ dbStmt' = [kind |-> "margin", price |-> dbRow.price, cost |-> dbRow.cost,
                ok |-> FALSE]
  /\ UNCHANGED dbRow
  /\ UNCHANGED <<relayVars, uiVars, pageVars, clientVars>>

\* DELETE FROM products WHERE sku = ...
DeleteProduct ==
  /\ dbRow.present
  /\ dbRow' = NoRow
  /\ dbStmt' = [kind |-> "delete", price |-> SqlNull, cost |-> SqlNull, ok |-> TRUE]
  /\ UNCHANGED <<relayVars, uiVars, pageVars, clientVars>>

NextDb == InsertProduct \/ UpdatePrice \/ UpdateCost \/ WriteMargin \/ DeleteProduct

\* ------------------------------------------------------------ dashboard
\* (src/frontend/components/Dashboard.tsx)  Every step of the dashboard ends
\* in a committed render of the new state; the effect of lines 202-204 runs
\* after the commit of a render in which searchTerm or selectedCategory
\* differs from the values it last ran with, and before the next event.
MaxAiCalls == 2

\* useState(10) and the first two values of the items-per-page select (the
\* lists here are shorter than 20, so 50 and 100 page them as 20 does)
InitialPageSize == 10
PageSizeOptions == {10, 20}

\* the category select: all categories, or one of the listed categories
CategoryOptions == {"", "Oven Parts"}

\* what is typed into the search box and into the AI query input
SearchTerms == { <<>>, <<"a">> }
AiQueries == { <<>>, <<" ">>, <<"a">>, <<"a", "B">> }

\* the records GET /api/products serves: name is NOT NULL in the schema and
\* a string in the Product interface
ServedProducts == SelectSeq(Catalog, LAMBDA p : p.name.k = "str")

\* the lists the products query can resolve with
LoadedLists == { slice(ServedProducts, 3), ServedProducts }

\* String.prototype.trim
RECURSIVE trimStart(_)
trimStart(s) == IF s # <<>> /\ s[1] = " " THEN trimStart(Tail(s)) ELSE s

RECURSIVE trimEnd(_)
trimEnd(s) ==
  IF s # <<>> /\ s[Len(s)] = " " THEN trimEnd(SubSeq(s, 1, Len(s) - 1)) ELSE s

trim(s) == trimEnd(trimStart(s))

\* lines 139-143: the predicate of the table's filter
TableMatches(p, term) ==
  \/ includes(toLowerCase(p.name.s), toLowerCase(term))
  \/ includes(toLowerCase(p.sku.s), toLowerCase(term))
  \/ (Truthy(p.manufacturer)
        /\ includes(toLowerCase(p.manufacturer.s), toLowerCase(term)))

TableFilter(list, term) == SelectSeq(list, LAMBDA p : TableMatches(p, term))

filteredProducts == TableFilter(loadedProducts, searchTerm)

\* Math.ceil(a / b)
Ceil(a, b) == (a + b - 1) \div b

totalPages == Ceil(Len(filteredProducts), itemsPerPage)

\* lines 146-148
currentProducts ==
  LET indexOfLastItem == currentPage * itemsPerPage
      indexOfFirstItem == indexOfLastItem - itemsPerPage
      last == IF Len(filteredProducts) < indexOfLastItem
              THEN Len(filteredProducts) ELSE indexOfLastItem
  IN  SubSeq(filteredProducts, indexOfFirstItem + 1, last)

\* lines 174-199
Dots == Str(<<".", ".", ".">>)

PageRange(page, pages) ==
  SelectSeq([i \in 1..pages |-> i],
            LAMBDA i : i = 1 \/ i = pages \/ (i >= page - 2 /\ i <= page + 2))

\* lines 186-196 without the branch that fills a gap of one page
RECURSIVE RangeWithDots_NoFill(_, _)
RangeWithDots_NoFill(range, l) ==
  IF range = <<>> THEN <<>>
  ELSE LET i == Head(range)
           before == IF Truthy(l) /\ i - l.n # 1 THEN << Dots >> ELSE <<>>
       IN  before \o << Num(i) >> \o RangeWithDots_NoFill(Tail(range), Num(i))

RECURSIVE RangeWithDots(_, _)
RangeWithDots(range, l) ==
  IF range = <<>> THEN <<>>
  ELSE LET i == Head(range)
           before ==
             IF Truthy(l)
             THEN IF i - l.n = 2 THEN << Num(l.n + 1) >>
                  ELSE IF i - l.n # 1 THEN << Dots >>
                  ELSE <<>>
             ELSE <<>>
       IN  before \o << Num(i) >> \o RangeWithDots(Tail(range), Num(i))

getPageNumbers(page, pages) == RangeWithDots(PageRange(page, pages), Undefined)

\* the pagination bar is rendered (lines 834 and 850)
PaginationShown == Len(filteredProducts) > 0 /\ totalPages > 1

\* the reset effect has run for the values now rendered
EffectsFlushed == effectDeps = <<searchTerm, selectedCategory>>

InitDashboard ==
  /\ loadedProducts = <<>>
  /\ productsLoading = TRUE
  /\ searchTerm = <<>>
  /\ selectedCategory = ""
  /\ aiQuery = <<>>
  /\ currentPage = 1
  /\ itemsPerPage = InitialPageSize
  /\ storedAiResponse = JsNull
  /\ aiLoading = FALSE
  /\ inFlight = {}
  /\ aiCalls = 0
  /\ effectDeps = << <<>>, "" >>

\* line 599: the search box
TypeSearch ==
  /\ EffectsFlushed
  /\ \E t \in SearchTerms \ {searchTerm} : searchTerm' = t
  /\ UNCHANGED <<loadedProducts, productsLoading, selectedCategory, aiQuery,
                 currentPage, itemsPerPage, storedAiResponse, aiLoading, inFlight,
                 aiCalls, effectDeps>>
  /\ UNCHANGED <<relayVars, dbVars, pageVars, clientVars>>

\* line 608: the category select; the products query gets a new key
\* (line 117), its data is undefined until the fetch resolves (products = [])
SelectCategory ==
  /\ EffectsFlushed
  /\ \E c \in CategoryOptions \ {selectedCategory} : selectedCategory' = c
  /\ loadedProducts' = <<>>
  /\ productsLoading' = TRUE
  /\ UNCHANGED <<searchTerm, aiQuery, currentPage, itemsPerPage, storedAiResponse,
                 aiLoading, inFlight, aiCalls, effectDeps>>
  /\ UNCHANGED <<relayVars, dbVars, pageVars, clientVars>>

\* lines 622-625: the items-per-page select
SelectItemsPerPage ==
  /\ EffectsFlushed
  /\ \E n \in PageSizeOptions \ {itemsPerPage} : itemsPerPage' = n
  /\ currentPage' = 1
  /\ UNCHANGED <<loadedProducts, productsLoading, searchTerm, selectedCategory,
                 aiQuery, storedAiResponse, aiLoading, inFlight, aiCalls, effectDeps>>
  /\ UNCHANGED <<relayVars, dbVars, pageVars, clientVars>>

\* lines 161-165, behind the Previous button (disabled on page 1)
handlePreviousPage ==
  /\ EffectsFlushed
  /\ PaginationShown
  /\ currentPage # 1
  /\ currentPage > 1
  /\ currentPage' = currentPage - 1
  /\ UNCHANGED <<loadedProducts, productsLoading, searchTerm, selectedCategory,
                 aiQuery, itemsPerPage, storedAiResponse, aiLoading, inFlight,
                 aiCalls, effectDeps>>
  /\ UNCHANGED <<relayVars, dbVars, pageVars, clientVars>>

\* lines 167-171, behind the Next button (disabled on the last page)
handleNextPage ==
  /\ EffectsFlushed
  /\ PaginationShown
  /\ currentPage # totalPages
  /\ currentPage < totalPages
  /\ currentPage' = currentPage + 1
  /\ UNCHANGED <<loadedProducts, productsLoading, searchTerm, selectedCategory,
                 aiQuery, itemsPerPage, storedAiResponse, aiLoading, inFlight,
                 aiCalls, effectDeps>>
  /\ UNCHANGED <<relayVars, dbVars, pageVars, clientVars>>

\* lines 152-159, behind one of the page-number buttons of lines 868-887
handlePageChange ==
  /\ EffectsFlushed
  /\ PaginationShown
  /\ \E i \in 1..Len(getPageNumbers(currentPage, totalPages)) :
       LET number == getPageNumbers(currentPage, totalPages)[i]
       IN  number.k = "num" /\ currentPage' = number.n
  /\ UNCHANGED <<loadedProducts, productsLoading, searchTerm, selectedCategory,
                 aiQuery, itemsPerPage, storedAiResponse, aiLoading, inFlight,
                 aiCalls, effectDeps>>
  /\ UNCHANGED <<relayVars, dbVars, pageVars, clientVars>>

\* lines 214-217: refetch; the list on screen stays until the new one arrives
handleRefresh ==
  /\ EffectsFlushed
  /\ ~ productsLoading
  /\ productsLoading' = TRUE
  /\ UNCHANGED <<loadedProducts, searchTerm, selectedCategory, aiQuery,
                 currentPage, itemsPerPage, storedAiResponse, aiLoading, inFlight,
                 aiCalls, effectDeps>>
  /\ UNCHANGED <<relayVars, dbVars, pageVars, clientVars>>

\* lines 116-136: the products query resolves
ProductsArrive ==
  /\ EffectsFlushed
  /\ productsLoading
  /\ \E list \in LoadedLists : loadedProducts' = list
  /\ productsLoading' = FALSE
  /\ UNCHANGED <<searchTerm, selectedCategory, aiQuery, currentPage,
                 itemsPerPage, storedAiResponse, aiLoading, inFlight, aiCalls, effectDeps>>
  /\ UNCHANGED <<relayVars, dbVars, pageVars, clientVars>>

\* line 475: the AI query input
TypeAiQuery ==
  /\ EffectsFlushed
  /\ \E q \in AiQueries \ {aiQuery} : aiQuery' = q
  /\ UNCHANGED <<loadedProducts, productsLoading, searchTerm, selectedCategory,
                 currentPage, itemsPerPage, storedAiResponse, aiLoading, inFlight,
                 aiCalls, effectDeps>>
  /\ UNCHANGED <<relayVars, dbVars, pageVars, clientVars>>

\* lines 220-230: handleAIQuery up to its await
handleAIQuery(via) ==
  /\ aiCalls < MaxAiCalls
  /\ aiCalls' = aiCalls + 1
  /\ IF trim(aiQuery) # <<>>
     THEN /\ aiLoading' = TRUE
          /\ inFlight' = inFlight \cup
               { [id |-> aiCalls + 1, query |-> aiQuery, via |-> via] }
     ELSE UNCHANGED <<aiLoading, inFlight>>
  /\ UNCHANGED <<loadedProducts, productsLoading, searchTerm, selectedCategory,
                 aiQuery, currentPage, itemsPerPage, storedAiResponse, effectDeps>>
  /\ UNCHANGED <<relayVars, dbVars, pageVars, clientVars>>

\* lines 476-480: Enter in the AI query input
PressEnter == EffectsFlushed /\ handleAIQuery("enter")

\* lines 482-485: the Search button, disabled while aiLoading
ClickSearch == EffectsFlushed /\ ~ aiLoading /\ handleAIQuery("button")

\* what POST /api/ai yields for a query: a rejected fetch or a body that is
\* not JSON, the body of a 500, or the body the relay builds from its list
Rejected == [k |-> "reject"]
Data(body) == [k |-> "data", body |-> body]

\* the 200 body of the relay for each query, with and without a model key
RelayBodies ==
  [q \in AiQueries, key \in BOOLEAN |->
     IF key
     THEN GeminiResponse(Str(q), ServedProducts,
                         ParseModelText(<<LB>> \o SampleObject \o <<RB>>))
     ELSE NoKeyResponse(Str(q), ServedProducts)]

AiOutcomes(q) ==
  { Rejected, Data(ServerError), Data(RelayBodies[q, hasKey]) }

\* data.recommendedProducts && data.recommendedProducts.length > 0
HasRecommended(body) ==
  /\ Truthy(body.recommendedProducts)
  /\ body.recommendedProducts.k = "arr"
  /\ Len(body.recommendedProducts.a) > 0

\* setAiResponse(data); of is the request whose continuation stored it
Stored(body, id) == [k |-> "object", body |-> body, of |-> id]

\* lines 245-252 without the finally block
AfterAwait_NoFinally(id, q, o) ==
  IF o.k = "reject"
  THEN [aiResponse |-> storedAiResponse, searchTerm |-> q, aiQuery |-> <<>>,
        aiLoading |-> aiLoading]
  ELSE [aiResponse |-> Stored(o.body, id),
        searchTerm |-> IF HasRecommended(o.body) THEN q ELSE searchTerm,
        aiQuery |-> <<>>, aiLoading |-> FALSE]

\* lines 236-241 with the search updated for every response
AfterAwait_AlwaysSearch(id, q, o) ==
  IF o.k = "reject"
  THEN [aiResponse |-> storedAiResponse, searchTerm |-> q, aiQuery |-> <<>>,
        aiLoading |-> FALSE]
  ELSE [aiResponse |-> Stored(o.body, id), searchTerm |-> q, aiQuery |-> <<>>,
        aiLoading |-> FALSE]

\* lines 232-252: what the rest of handleAIQuery stores once the request
\* has settled; q is the aiQuery the handler was called with
AfterAwait(id, q, o) ==
  IF o.k = "reject"
  THEN [aiResponse |-> storedAiResponse, searchTerm |-> q, aiQuery |-> <<>>,
        aiLoading |-> FALSE]
  ELSE [aiResponse |-> Stored(o.body, id),
        searchTerm |-> IF HasRecommended(o.body) THEN q ELSE searchTerm,
        aiQuery |-> <<>>, aiLoading |-> FALSE]

\* lines 232-252: a request settles and the rest of handleAIQuery runs
AiSettles ==
  /\ EffectsFlushed
  /\ \E r \in inFlight :
       \E o \in AiOutcomes(r.query) :
         /\ storedAiResponse' = AfterAwait(r.id, r.query, o).aiResponse
         /\ searchTerm' = AfterAwait(r.id, r.query, o).searchTerm
         /\ inFlight' = inFlight \ {r}
         /\ aiQuery' = AfterAwait(r.id, r.query, o).aiQuery
         /\ aiLoading' = AfterAwait(r.id, r.query, o).aiLoading
  /\ UNCHANGED <<loadedProducts, productsLoading, selectedCategory, currentPage,
                 itemsPerPage, aiCalls, effectDeps>>
  /\ UNCHANGED <<relayVars, dbVars, pageVars, clientVars>>

\* line 533: the close button of the response card
DismissResponse ==
  /\ EffectsFlushed
  /\ storedAiResponse.k # "null"
  /\ storedAiResponse' = JsNull
  /\ UNCHANGED <<loadedProducts, productsLoading, searchTerm, selectedCategory,
                 aiQuery, currentPage, itemsPerPage, aiLoading, inFlight,
                 aiCalls, effectDeps>>
  /\ UNCHANGED <<relayVars, dbVars, pageVars, clientVars>>

\* lines 202-204: the reset effect
ResetPage ==
  /\ ~ EffectsFlushed
  /\ currentPage' = 1
  /\ effectDeps' = <<searchTerm, selectedCategory>>
  /\ UNCHANGED <<loadedProducts, productsLoading, searchTerm, selectedCategory,
                 aiQuery, itemsPerPage, storedAiResponse, aiLoading, inFlight,
                 aiCalls>>
  /\ UNCHANGED <<relayVars, dbVars, pageVars, clientVars>>

NextDashboard ==
  \/ TypeSearch \/ SelectCategory \/ SelectItemsPerPage
  \/ handlePreviousPage \/ handleNextPage \/ handlePageChange
  \/ handleRefresh \/ ProductsArrive
  \/ TypeAiQuery \/ PressEnter \/ ClickSearch \/ AiSettles \/ DismissResponse
  \/ ResetPage

\* ------------------------------------------------------ getPageNumbers
MaxPages == 14

NoPageInput == [k |-> "none"]
NotComputed == [k |-> "none"]

\* totalPages >= 1 and currentPage in 1..totalPages
PageInputs ==
  { [k |-> "input", totalPages |-> w[1], currentPage |-> w[2]] :
      w \in { v \in (1..MaxPages) \X (1..MaxPages) : v[2] <= v[1] } }

ComputePageNumbers ==
  /\ pageInput.k = "input"
  /\ pageNumbers = NotComputed
  /\ pageNumbers' = Arr(getPageNumbers(pageInput.currentPage, pageInput.totalPages))
  /\ UNCHANGED pageInput
  /\ UNCHANGED <<relayVars, dbVars, uiVars, clientVars>>

NextPages == ComputePageNumbers

\* ---------------------------------------------------------- queryGemini
\* (src/unnamed/part_005, lib/gemini-client.js)
\* a JSON literal (null, a number, a string) in the model's text
Lit(v) == [t |-> "lit", v |-> v]

\* the texts response.text() may return to queryGemini
ClientTexts ==
  ModelTexts \cup { <<Lit(JsNull)>>, <<Lit(Num(1))>>, <<Lit(Str(<<"o", "k">>))>>,
                    <<Lit(Num(1)), TXT>>, <<TXT, Lit(JsNull)>> }

JsError(name) == [k |-> "error", name |-> name]

\* generateContent rejects, response.text() throws, or a text comes back
ClientOutcomes ==
  { [k |-> "throw", error |-> JsError(n)] :
      n \in {"GoogleGenerativeAIFetchError", "GoogleGenerativeAIResponseError"} }
    \cup { RawText(t) : t \in ClientTexts }

\* the arguments of a call
ClientQueries == { Str(<<>>), Str(<<"a">>), Undefined }
ClientProducts == { Arr(<<>>), Arr(Catalog), Undefined }

NoClientPrompt == [k |-> "none"]
NoClientOutcome == [k |-> "none"]
NoClientResult == [k |-> "none"]

\* lines 10-24 : the query and JSON.stringify(products.slice(0, 10), null, 2)
ClientPrompt(q, list) ==
  [k |-> "prompt", userQuery |-> q, sample |-> slice(list, SampleSize)]

\* JSON.parse(text) throws: the text is neither one literal nor one object
JsonTextThrows(text) ==
  /\ ~ (Len(text) = 1 /\ text[1].t = "lit")
  /\ JsonParseThrows(text)

\* the value of JSON.parse(text)
JsonValue(text) ==
  IF text[1].t = "lit" THEN text[1].v
  ELSE [k |-> "object", members |-> SubSeq(text, 2, Len(text) - 1)]

Returned(v) == [k |-> "returned", value |-> v]
Thrown(e) == [k |-> "thrown", error |-> e]

\* lines 34-38
ParseFallback(text) ==
  [answer |-> RawText(text), recommendedProducts |-> Arr(<<>>),
   suggestions |-> Arr(<<>>)]

\* lines 26-44 with a catch block that answers with the fallback
AfterGenerate_CatchAll(o) ==
  IF o.k = "throw" THEN Returned(ParseFallback(<<>>))
  ELSE IF JsonTextThrows(o.toks) THEN Returned(ParseFallback(o.toks))
  ELSE Returned(JsonValue(o.toks))

\* lines 26-44 : what the call gives its caller once the model call settled
AfterGenerate(o) ==
  IF o.k = "throw" THEN Thrown(o.error)
  ELSE IF JsonTextThrows(o.toks) THEN Returned(ParseFallback(o.toks))
  ELSE Returned(JsonValue(o.toks))

InitClient ==
  /\ clientPc = "idle"
  /\ clientPrompt = NoClientPrompt
  /\ clientOutcome = NoClientOutcome
  /\ clientResult = NoClientResult

\* lines 6-26 : build the prompt and call the model; products.slice throws a
\* TypeError when products is not an array, which lines 41-44 rethrow
queryGemini ==
  /\ clientPc = "idle"
  /\ \E userQuery \in ClientQueries, list \in ClientProducts :
       IF list.k # "arr"
       THEN /\ clientPc' = "done"
            /\ clientResult' = Thrown(JsError("TypeError"))
            /\ UNCHANGED clientPrompt
       ELSE /\ clientPc' = "await"
            /\ clientPrompt' = ClientPrompt(userQuery, list.a)
            /\ UNCHANGED clientResult
  /\ UNCHANGED clientOutcome
  /\ UNCHANGED <<relayVars, dbVars, uiVars, pageVars>>

\* lines 26-44 : the model call settles
GenerateContentSettles ==
  /\ clientPc = "await"
  /\ \E o \in ClientOutcomes :
       /\ clientOutcome' = o
       /\ clientResult' = AfterGenerate(o)
  /\ clientPc' = "done"
  /\ UNCHANGED clientPrompt
  /\ UNCHANGED <<relayVars, dbVars, uiVars, pageVars>>

NextClient == queryGemini \/ GenerateContentSettles

\* -------------------------------------------------------------- actions
\* the fetch without its try/catch: the failure itself becomes products
AfterFetch_Unguarded(old, o) == o

\* let products = []; try { products = await (await fetch(..)).json() } catch {}
AfterFetch(old, o) == IF o.k \in {"throw", "badjson"} THEN old ELSE o

\* the relay before a request
InitRelay ==
  /\ pc = "idle"
  /\ hasKey \in BOOLEAN
  /\ request = [k |-> "none"]
  /\ query = Undefined
  /\ fetchResult = [k |-> "none"]
  /\ products = Arr(<<>>)
  /\ fetchCalls = 0
  /\ modelCalls = 0
  /\ prompt = NoPrompt
  /\ modelResult = [k |-> "none"]
  /\ path = "none"
  /\ response = NoResponse

Init ==
  /\ InitRelay
  /\ dbRow = NoRow
  /\ dbStmt = NoStmt
  /\ InitDashboard
  /\ pageInput = NoPageInput
  /\ pageNumbers = NotComputed
  /\ InitClient

\* the inputs of one call of getPageNumbers
InitPages ==
  /\ InitRelay
  /\ dbRow = NoRow
  /\ dbStmt = NoStmt
  /\ InitDashboard
  /\ pageInput \in PageInputs
  /\ pageNumbers = NotComputed
  /\ InitClient

\* lines 9-15: read the body, take query, reject a falsy query
ParseBody ==
  /\ pc = "idle"
  /\ \E body \in Bodies :
       /\ request' = body
       /\ IF JsonThrows(body) \/ DestructureThrows(body)
          THEN /\ pc' = "done"
               /\ path' = "outerCatch"
               /\ response' = ServerError
               /\ UNCHANGED query
          ELSE LET q == DestructureQuery(body)
               IN  /\ query' = q
                   /\ IF ~ Truthy(q)
                      THEN /\ pc' = "done"
                           /\ path' = "invalid"
                           /\ response' = BadRequest
                      ELSE /\ pc' = "fetch"
                           /\ UNCHANGED <<path, response>>
  /\ UNCHANGED <<hasKey, fetchResult, products, fetchCalls, modelCalls, prompt,
                 modelResult>>
  /\ UNCHANGED <<dbVars, uiVars, pageVars, clientVars>>

\* the fetch tried once more after a thrown attempt
FetchProducts_Retry ==
  /\ pc = "fetch"
  /\ \E o \in FetchOutcomes :
       /\ fetchResult' = o
       /\ products' = AfterFetch(products, o)
       /\ pc' = IF o.k = "throw" /\ fetchCalls = 0 THEN "fetch" ELSE "branch"
  /\ fetchCalls' = fetchCalls + 1
  /\ UNCHANGED <<hasKey, request, query, modelCalls, prompt, modelResult, path,
                 response>>
  /\ UNCHANGED <<dbVars, uiVars, pageVars, clientVars>>

\* lines 17-24: one guarded fetch of the product list
FetchProducts ==
  /\ pc = "fetch"
  /\ \E o \in FetchOutcomes :
       /\ fetchResult' = o
       /\ products' = AfterFetch(products, o)
  /\ fetchCalls' = fetchCalls + 1
  /\ pc' = "branch"
  /\ UNCHANGED <<hasKey, request, query, modelCalls, prompt, modelResult, path,
                 response>>
  /\ UNCHANGED <<dbVars, uiVars, pageVars, clientVars>>

\* lines 136-159, with the outer catch of lines 161-172
NoKeySearch ==
  /\ pc = "branch"
  /\ ~ hasKey
  /\ IF query.k # "str" \/ products.k # "arr"
     THEN /\ path' = "outerCatch"
          /\ response' = ServerError
     ELSE /\ path' = "noKey"
          /\ response' = NoKeyResponse(query, products.a)
  /\ pc' = "done"
  /\ UNCHANGED <<hasKey, request, query, fetchResult, products, fetchCalls,
                 modelCalls, prompt, modelResult>>
  /\ UNCHANGED <<dbVars, uiVars, pageVars, clientVars>>

\* lines 27-135, with the outer catch of lines 161-172
AskGemini ==
  /\ pc = "branch"
  /\ hasKey
  /\ \E o \in ModelOutcomes :
       LET promptThrows == products.k # "arr"
           called == ~ promptThrows
           aiResponse == ParseModelText(o.toks)
           mapThrows == MapSkusThrows(products.a, aiResponse.productSkus)
           mapped == IF Truthy(aiResponse.productSkus)
                     THEN MapSkus(products.a, aiResponse.productSkus) ELSE <<>>
           tryThrows ==
             \/ promptThrows
             \/ o.k = "throw"
             \/ mapThrows
             \/ (Len(mapped) = 0 /\ query.k # "str")
           catchThrows == query.k # "str" \/ products.k # "arr"
       IN  /\ prompt' = IF called THEN BuildPrompt(query, products.a) ELSE prompt
           /\ modelCalls' = IF called THEN modelCalls + 1 ELSE modelCalls
           /\ modelResult' = IF called THEN o ELSE modelResult
           /\ IF ~ tryThrows
              THEN /\ path' = IF Len(mapped) = 0 THEN "emptyMapping" ELSE "mapped"
                   /\ response' = GeminiResponse(query, products.a, aiResponse)
              ELSE IF ~ catchThrows
              THEN /\ path' = "geminiCatch"
                   /\ response' = GeminiErrorResponse(query, products.a)
              ELSE /\ path' = "outerCatch"
                   /\ response' = ServerError
  /\ pc' = "done"
  /\ UNCHANGED <<hasKey, request, query, fetchResult, products, fetchCalls>>
  /\ UNCHANGED <<dbVars, uiVars, pageVars, clientVars>>

Next == ParseBody \/ FetchProducts \/ NoKeySearch \/ AskGemini

Spec == Init /\ [][Next]_vars

\* the statements run against the products table
SpecDb == Init /\ [][NextDb]_vars

\* the events of the dashboard
SpecDashboard == Init /\ [][NextDashboard]_vars

\* the events of the AI assistant card and the effect they can trigger
NextAiQuery ==
  \/ TypeAiQuery \/ PressEnter \/ ClickSearch \/ AiSettles \/ DismissResponse
  \/ ResetPage

\* every pending effect runs, and every request settles however often other
\* events leave an effect pending in between
SpecAiQuery ==
  Init /\ [][NextAiQuery]_vars /\ SF_vars(AiSettles) /\ WF_vars(ResetPage)

\* getPageNumbers applied to its inputs
SpecPages == InitPages /\ [][NextPages]_vars

\* one call of queryGemini
SpecClient == Init /\ [][NextClient]_vars


\* =============================================================== claims
\* ------------------------------------------------ the matcher as stated
CasePairs == { <<"a", "A">>, <<"b", "B">> }

SameLetter(c, d) == c = d \/ <<c, d>> \in CasePairs \/ <<d, c>> \in CasePairs

\* s contains q, letters compared without regard to case
ContainsIgnoringCase(s, q) ==
  \E i \in 1..(Len(s) - Len(q) + 1) :
    \A j \in 1..Len(q) : SameLetter(s[i + j - 1], q[j])

MatchedFields == {"name", "category", "manufacturer", "sku"}

StatedMatch(p, q) ==
  \E f \in MatchedFields : p[f].k = "str" /\ ContainsIgnoringCase(p[f].s, q)

MatchingIndices(list, q) == { i \in 1..Len(list) : StatedMatch(list[i], q) }

\* r is the first (at most 5) matching records of list, in list order
IsStatedResult(r, list, q) ==
  LET idx == MatchingIndices(list, q)
      n == IF Cardinality(idx) < 5 THEN Cardinality(idx) ELSE 5
  IN  /\ Len(r) = n
      /\ \A m \in 1..n :
           \E i \in idx : /\ Cardinality({ j \in idx : j <= i }) = m
                          /\ r[m] = list[i]

IsBlank(s) == \A i \in 1..Len(s) : s[i] = " "

\* C1: a request whose query is empty or only whitespace gets the 400
\* response, and neither the catalog fetch nor the model call is made.
C1_BlankQueryRejected ==
  (query.k = "str" /\ IsBlank(query.s)) =>
     /\ fetchCalls = 0
     /\ modelCalls = 0
     /\ (pc = "done" => response.status = 400)

\* the query is missing: no query field, a null field, a null or
\* non-object body
QueryMissing(body) ==
  \/ body.k \in {"null", "num"}
  \/ (body.k = "object" /\ body.query.k \in {"undefined", "null"})

\* C2: a request whose query is missing is answered with a 4xx status
\* carrying an error, never with the 500 response.
C2_MissingQueryIs4xx ==
  (pc = "done" /\ QueryMissing(request)) =>
     /\ response.status \in 400..499
     /\ Truthy(response.error)

\* C3: without a model credential, for a non-empty query and a fetched list,
\* recommendedProducts is exactly the records whose name, category,
\* manufacturer or SKU contains the query case-insensitively, in list order,
\* cut to the first 5; a missing field never matches.
C3_NoKeyIsStatedMatcher ==
  (pc = "done" /\ ~ hasKey /\ query.k = "str" /\ query.s # <<>>
     /\ products.k = "arr") =>
     /\ response.status = 200
     /\ response.recommendedProducts.k = "arr"
     /\ IsStatedResult(response.recommendedProducts.a, products.a, query.s)

\* C3 witness: six records of a list with a nameless record match, and the
\* answer carries the first five
C3_Witness ==
  /\ pc = "done"
  /\ ~ hasKey
  /\ path = "noKey"
  /\ products.k = "arr"
  /\ query.k = "str"
  /\ Cardinality(MatchingIndices(products.a, query.s)) > 5
  /\ Len(response.recommendedProducts.a) = 5
  /\ \E i \in 1..Len(products.a) : products.a[i].name.k = "undefined"


Present(v) == v.k \notin {"undefined", "null"}

\* C4: with a credential, when the model's text cannot be parsed, the
\* response has no recommended products and the default suggestions.
C4_ParseFailureEmptyAndDefault ==
  (pc = "done" /\ hasKey /\ query.k = "str" /\ products.k = "arr"
     /\ modelResult.k = "text" /\ ParseFails(modelResult.toks)) =>
     /\ response.recommendedProducts = Arr(<<>>)
     /\ response.relatedSuggestions = DefaultSuggestions

\* C5: when the catalog fetch throws, the relay goes on with an empty list
\* and answers a string query with a complete success response whose
\* recommendedProducts is empty, with or without a credential.
C5_FetchErrorStillAnswers ==
  fetchResult.k = "throw" =>
     /\ products = Arr(<<>>)
     /\ (pc = "done" /\ query.k = "str") =>
          /\ response.status = 200
          /\ Present(response.answer)
          /\ response.recommendedProducts = Arr(<<>>)
          /\ Present(response.relatedSuggestions)

\* C5 witness: the fetch threw, the model was asked and named SKUs
C5_Witness ==
  /\ pc = "done"
  /\ fetchResult.k = "throw"
  /\ hasKey
  /\ modelCalls = 1
  /\ modelResult.k = "text"
  /\ ~ ParseFails(modelResult.toks)
  /\ Property(JsonMatch(modelResult.toks), "productSkus").k = "arr"
  /\ Property(JsonMatch(modelResult.toks), "productSkus").a # <<>>
  /\ response.status = 200

\* C6: a request with a non-empty string query is always answered with a
\* success response, whatever the catalog fetch and the model call did.
C6_NoHardFailure ==
  (pc = "done" /\ request.k = "object" /\ request.query.k = "str"
     /\ request.query.s # <<>>) =>
     response.status = 200

\* C7: a success response has answer, recommendedProducts and
\* relatedSuggestions, each present and not null, on every path.
C7_SuccessIsComplete ==
  response.status = 200 =>
     /\ Present(response.answer)
     /\ Present(response.recommendedProducts)
     /\ Present(response.relatedSuggestions)

\* C7 witness: the model's object has neither answer nor suggestions
C7_Witness ==
  /\ pc = "done"
  /\ response.status = 200
  /\ path = "emptyMapping"
  /\ ~ ParseFails(modelResult.toks)
  /\ Property(JsonMatch(modelResult.toks), "answer") = Undefined
  /\ Property(JsonMatch(modelResult.toks), "suggestions") = Undefined

\* C8: every failure response (400, 500) has error and answer, and empty
\* recommendedProducts and relatedSuggestions lists.
C8_FailureShape ==
  response.status \in {400, 500} =>
     /\ Present(response.error)
     /\ Present(response.answer)
     /\ response.recommendedProducts = Arr(<<>>)
     /\ response.relatedSuggestions = Arr(<<>>)

\* C8 as amended: every failure response has an error; the 500 response
\* also has an answer, an empty recommendedProducts list and three
\* suggestions; the 400 response has the error and nothing else.
C8_FailureShapeAmended ==
  /\ pc = "done" => response.status \in {200, 400, 500}
  /\ response.status \in {400, 500} => Present(response.error)
  /\ response.status = 500 =>
       /\ Present(response.answer)
       /\ response.recommendedProducts = Arr(<<>>)
       /\ response.relatedSuggestions.k = "arr"
       /\ Len(response.relatedSuggestions.a) = 3
  /\ response.status = 400 =>
       /\ response.answer = Undefined
       /\ response.recommendedProducts = Undefined
       /\ response.relatedSuggestions = Undefined

\* C8 witness: the outer catch answered after the catalog was fetched
C8_Witness ==
  /\ pc = "done"
  /\ response.status = 500
  /\ path = "outerCatch"
  /\ fetchCalls = 1

\* C9: every success response carries exactly 3 suggestions.
C9_ThreeSuggestions ==
  response.status = 200 =>
     /\ response.relatedSuggestions.k = "arr"
     /\ Len(response.relatedSuggestions.a) = 3

\* C10: the no-credential answer, the answer after a failed model call and
\* the answer after an empty SKU mapping all recommend the first 5 records
\* whose name, category, manufacturer or SKU contains the query.
C10_OneFallbackEverywhere ==
  path \in {"noKey", "geminiCatch", "emptyMapping"} =>
     /\ response.recommendedProducts.k = "arr"
     /\ IsStatedResult(response.recommendedProducts.a, products.a, query.s)

\* --------------------------------------------------------- SKU mapping
\* r is the records of list at the first (at most cap) indices of idx
IsSelection(r, list, idx, cap) ==
  LET n == IF Cardinality(idx) < cap THEN Cardinality(idx) ELSE cap
  IN  /\ Len(r) = n
      /\ \A m \in 1..n :
           \E i \in idx : /\ Cardinality({ j \in idx : j <= i }) = m
                          /\ r[m] = list[i]

\* productSkus of the object the relay parsed out of the model's text
NamedSkus(text) == Property(JsonMatch(text), "productSkus")

\* the places of list whose SKU equals one of the named SKUs
ExactIndices(list, skus) ==
  { i \in 1..Len(list) : \E n \in 1..Len(skus) : skus[n] = list[i].sku }

\* the model answered a string query with an object that names SKUs
ModelNamedSkus ==
  /\ pc = "done"
  /\ hasKey
  /\ query.k = "str"
  /\ products.k = "arr"
  /\ modelResult.k = "text"
  /\ ~ ParseFails(modelResult.toks)
  /\ NamedSkus(modelResult.toks).k = "arr"
  /\ NamedSkus(modelResult.toks).a # <<>>

\* C11: when the model names SKUs, recommendedProducts is the records of the
\* whole fetched list whose SKU equals a named SKU; the substring matcher
\* fills recommendedProducts only when there is no such record.
C11_MappedAreAllNamed ==
  ModelNamedSkus =>
    LET idx == ExactIndices(products.a, NamedSkus(modelResult.toks).a)
    IN  /\ idx # {} =>
             IsSelection(response.recommendedProducts.a, products.a, idx,
                         Len(products.a))
        /\ idx = {} <=> path = "emptyMapping"

\* C11 as amended: the records with a named SKU are cut to the first 5 in
\* list order.
C11_MappedAreFirstFiveNamed ==
  ModelNamedSkus =>
    LET idx == ExactIndices(products.a, NamedSkus(modelResult.toks).a)
    IN  /\ response.status = 200
        /\ idx # {} =>
             IsSelection(response.recommendedProducts.a, products.a, idx, 5)
        /\ idx = {} <=> path = "emptyMapping"

\* C11 witness: a named record lies beyond the tenth place of the list and is
\* recommended, and a record that contains the query is not added
C11_Witness ==
  /\ ModelNamedSkus
  /\ path = "mapped"
  /\ \E i \in 11..Len(products.a) :
       /\ i \in ExactIndices(products.a, NamedSkus(modelResult.toks).a)
       /\ \E m \in 1..Len(response.recommendedProducts.a) :
            response.recommendedProducts.a[m] = products.a[i]
  /\ \E i \in MatchingIndices(products.a, query.s) :
       \A m \in 1..Len(response.recommendedProducts.a) :
         response.recommendedProducts.a[m] # products.a[i]

\* the SKUs of a list of records, in order
SkusOf(r) == [i \in 1..Len(r) |-> r[i].sku]

\* C12: mapping SKUs to records is idempotent: against the fetched list, the
\* named SKUs map again to the recommended records, and so do the SKUs of the
\* recommended records themselves, in the same order.
C12_MappingIdempotent ==
  (ModelNamedSkus /\ path = "mapped") =>
    /\ MapSkus(products.a, NamedSkus(modelResult.toks)) =
         response.recommendedProducts.a
    /\ MapSkus(products.a, Arr(SkusOf(response.recommendedProducts.a))) =
         response.recommendedProducts.a

\* C12 witness: the SKUs of the result are not the list the model named
C12_Witness ==
  /\ ModelNamedSkus
  /\ path = "mapped"
  /\ Len(response.recommendedProducts.a) = 5
  /\ SkusOf(response.recommendedProducts.a) # NamedSkus(modelResult.toks).a
  /\ Len(NamedSkus(modelResult.toks).a) > 5

\* ------------------------------------------------------ answer strings
\* the record contains q in its manufacturer and in no other matched field
ManufacturerOnly(p, q) ==
  /\ p.manufacturer.k = "str"
  /\ ContainsIgnoringCase(p.manufacturer.s, q)
  /\ \A f \in MatchedFields \ {"manufacturer"} :
       ~ (p[f].k = "str" /\ ContainsIgnoringCase(p[f].s, q))

\* no credential, and the query matches one record, by its manufacturer only
OneManufacturerMatch ==
  /\ pc = "done"
  /\ ~ hasKey
  /\ query.k = "str"
  /\ query.s # <<>>
  /\ products.k = "arr"
  /\ Cardinality(MatchingIndices(products.a, query.s)) = 1
  /\ \A i \in MatchingIndices(products.a, query.s) :
       ManufacturerOnly(products.a[i], query.s)

\* C13: without a credential, a query that matches exactly one record, through
\* its manufacturer only, is answered with a count of 1 and exactly that
\* record.
C13_OneManufacturerMatchAnswered ==
  OneManufacturerMatch =>
    /\ response.status = 200
    /\ response.answer.k = "template"
    /\ response.answer.count = 1
    /\ \A i \in MatchingIndices(products.a, query.s) :
         response.recommendedProducts = Arr(<< products.a[i] >>)

\* C13 witness: the one match stands among records that do not match
C13_Witness ==
  /\ OneManufacturerMatch
  /\ Len(products.a) > 1
  /\ Len(query.s) > 1
  /\ response.status = 200

\* the model's text came back for a string query and a fetched list
ModelAnswered ==
  /\ pc = "done"
  /\ hasKey
  /\ query.k = "str"
  /\ products.k = "arr"
  /\ modelResult.k = "text"

\* the text is not an object with answer, productSkus and suggestions
NotExpectedShape(text) ==
  \/ ParseFails(text)
  \/ \E key \in {"answer", "productSkus", "suggestions"} :
       Property(JsonMatch(text), key) = Undefined

\* C14: when the model's output is not parseable as the expected shape, the
\* response's answer is the model's raw text.
C14_UnparseableIsRawText ==
  (ModelAnswered /\ NotExpectedShape(modelResult.toks)) =>
    response.answer = RawText(modelResult.toks)

\* C14 as amended: when no object is found or JSON.parse rejects it, the
\* answer is the first 500 characters of the raw text, or a templated
\* sentence when the text is empty; an object that parses is never answered
\* with the raw text, and without an answer field it gets a templated
\* sentence.
C14_UnparseableIsTextPrefix ==
  ModelAnswered =>
    LET text == modelResult.toks
        n == IF Len(text) < 500 THEN Len(text) ELSE 500
    IN  /\ (ParseFails(text) /\ text # <<>>) =>
             /\ response.status = 200
             /\ response.answer.k = "text"
             /\ Len(response.answer.toks) = n
             /\ \A i \in 1..n : response.answer.toks[i] = text[i]
        /\ (ParseFails(text) /\ text = <<>>) =>
             /\ response.status = 200
             /\ response.answer.k = "template"
        /\ ~ ParseFails(text) =>
             /\ response.status = 200
             /\ response.answer.k # "text"
             /\ Property(JsonMatch(text), "answer") = Undefined =>
                  response.answer.k = "template"

\* C14 witness: prose longer than 500 characters was answered
C14_Witness ==
  /\ ModelAnswered
  /\ ParseFails(modelResult.toks)
  /\ Len(modelResult.toks) > 500
  /\ response.answer.k = "text"

\* ------------------------------------------------------ JSON extraction
\* opening braces minus closing braces among text[i..j]
BraceDepth(text, i, j) ==
  Cardinality({ x \in i..j : text[x] = LB }) -
    Cardinality({ x \in i..j : text[x] = RB })

FirstBrace(text) ==
  CHOOSE x \in 1..Len(text) : text[x] = LB /\ \A y \in 1..(x - 1) : text[y] # LB

\* the text has an opening brace and the brace that closes it
HasFirstBalanced(text) ==
  /\ \E x \in 1..Len(text) : text[x] = LB
  /\ \E j \in FirstBrace(text)..Len(text) : BraceDepth(text, FirstBrace(text), j) = 0

\* where the first balanced brace-delimited substring ends
FirstBalancedEnd(text) ==
  CHOOSE j \in FirstBrace(text)..Len(text) :
    /\ BraceDepth(text, FirstBrace(text), j) = 0
    /\ \A x \in FirstBrace(text)..(j - 1) : BraceDepth(text, FirstBrace(text), x) # 0

FirstBalanced(text) == SubSeq(text, FirstBrace(text), FirstBalancedEnd(text))

\* a well-formed object, then more text
ObjectThenText(text) ==
  /\ HasFirstBalanced(text)
  /\ ~ JsonParseThrows(FirstBalanced(text))
  /\ FirstBalancedEnd(text) < Len(text)

\* C15: for a raw text holding a well-formed object followed by further text,
\* the object the relay parses is the first balanced brace-delimited
\* substring, so the response carries that object's answer.
C15_FirstObjectParsed ==
  (ModelAnswered /\ ObjectThenText(modelResult.toks)
     /\ path \in {"mapped", "emptyMapping"}) =>
    LET first == FirstBalanced(modelResult.toks)
    IN  /\ ~ ParseFails(modelResult.toks)
        /\ JsonMatch(modelResult.toks) = first
        /\ Truthy(Property(first, "answer")) =>
             response.answer = Property(first, "answer")

\* --------------------------------------------------------------- prompt
PromptFields == {"sku", "name", "category", "price", "in_stock"}

\* C16: the prompt sent to the model embeds at most the first 10 records of
\* the fetched list, in list order, and of each record only sku, name,
\* category, price and in_stock.
C16_PromptIsBoundedProjection ==
  modelCalls > 0 =>
    /\ products.k = "arr"
    /\ Len(prompt.sample) <= 10
    /\ Len(prompt.sample) <= Len(products.a)
    /\ (Len(products.a) <= 10 => Len(prompt.sample) = Len(products.a))
    /\ \A i \in 1..Len(prompt.sample) :
         /\ DOMAIN prompt.sample[i] = PromptFields
         /\ \A f \in PromptFields : prompt.sample[i][f] = products.a[i][f]

\* C16 witness: the list has an eleventh record, with a manufacturer, and the
\* model was called
C16_Witness ==
  /\ modelCalls = 1
  /\ products.k = "arr"
  /\ Len(products.a) > 10
  /\ Len(prompt.sample) = 10
  /\ products.a[11].manufacturer.k = "str"

\* ------------------------------------------------------------- attempts
\* C17: one request makes at most one catalog fetch and at most one model
\* call, and the model is called only after the catalog fetch has concluded.
C17_SingleAttemptsInOrder ==
  /\ fetchCalls <= 1
  /\ modelCalls <= 1
  /\ modelCalls > 0 => (fetchCalls = 1 /\ fetchResult.k # "none")
  /\ fetchResult.k # "none" <=> fetchCalls = 1

\* C17 witness: the fetch and the model call both failed and the request was
\* answered without a second attempt of either
C17_Witness ==
  /\ pc = "done"
  /\ fetchResult.k = "throw"
  /\ modelResult.k = "throw"
  /\ fetchCalls = 1
  /\ modelCalls = 1
  /\ response.status = 200

C20_AtMostFiveRecommended ==
  Present(response.recommendedProducts) =>
    /\ response.recommendedProducts.k = "arr"
    /\ Len(response.recommendedProducts.a) <= 5

\* C20 witness: the model named more than five SKUs of the fetched list
C20_Witness ==
  /\ ModelNamedSkus
  /\ path = "mapped"
  /\ Cardinality(ExactIndices(products.a, NamedSkus(modelResult.toks).a)) > 5
  /\ Len(response.recommendedProducts.a) = 5

\* --------------------------------------------------------------- margin
\* m hundredths is (price - cost) / price * 100 to the nearest hundredth
IsStatedMargin(m, price, cost) ==
  IF price.k = "dec" /\ cost.k = "dec" /\ price.n > 0 /\ cost.n > 0
  THEN /\ m.k = "dec"
       /\ 2 * Abs(m.n * price.n - (price.n - cost.n) * 10000) <= price.n
  ELSE m = SqlNull

\* C19: after any inserts and updates of price and cost the stored margin is
\* the function of the row's price and cost, it cannot be written on its own,
\* and every insert or update with price > 0 and cost > 0 is accepted.
C19_MarginFollowsPriceAndCost ==
  /\ dbRow.present => IsStatedMargin(dbRow.margin, dbRow.price, dbRow.cost)
  /\ dbStmt.kind = "margin" => ~ dbStmt.ok
  /\ (dbStmt.kind \in {"insert", "update"}
        /\ dbStmt.price.k = "dec" /\ dbStmt.cost.k = "dec"
        /\ dbStmt.price.n > 0 /\ dbStmt.cost.n > 0) =>
       /\ dbStmt.ok
       /\ dbRow.price = dbStmt.price
       /\ dbRow.cost = dbStmt.cost

\* ------------------------------------------- provenance of the products
\* the places of list that hold the record p
PlacesOf(list, p) == { i \in 1..Len(list) : list[i] = p }

\* r is list with some places left out: increasing places of list hold r
RECURSIVE IsSubsequence(_, _)
IsSubsequence(r, list) ==
  IF r = <<>> THEN TRUE
  ELSE IF list = <<>> THEN FALSE
  ELSE IF r[1] = list[1] THEN IsSubsequence(Tail(r), Tail(list))
  ELSE IsSubsequence(r, Tail(list))

\* C21: every record of recommendedProducts is a record of the list fetched
\* in this request, no record appears twice, and the records keep the order
\* of the fetched list, whatever order the model named the SKUs in.
C21_RecommendedComeFromFetch ==
  (pc = "done" /\ response.recommendedProducts.k = "arr") =>
    LET r == response.recommendedProducts.a
        fetched == IF products.k = "arr" THEN products.a ELSE <<>>
    IN  /\ \A m \in 1..Len(r) : PlacesOf(fetched, r[m]) # {}
        /\ \A m, n \in 1..Len(r) : m # n => r[m] # r[n]
        /\ IsSubsequence(r, fetched)

\* C21 witness: the model named two SKUs against the order of the fetched
\* list and both records are recommended
C21_Witness ==
  /\ ModelNamedSkus
  /\ path = "mapped"
  /\ Len(response.recommendedProducts.a) = 2
  /\ SkusOf(response.recommendedProducts.a) =
       << NamedSkus(modelResult.toks).a[2], NamedSkus(modelResult.toks).a[1] >>

\* ------------------------------------------------------------ dashboard
\* C22: whenever searchTerm or selectedCategory changes (also when the AI
\* query handler sets searchTerm) or itemsPerPage is changed, the render
\* that shows the change already has currentPage = 1.
C22_PageOneWithNewFilter ==
  [][ (\/ searchTerm' # searchTerm
       \/ selectedCategory' # selectedCategory
       \/ itemsPerPage' # itemsPerPage) => currentPage' = 1 ]_vars

\* C23: once the reset effect has run, currentPage lies in
\* 1..max(1, totalPages), whatever events and data arrivals came before, so
\* the page on screen is not past the end of the filtered list.
C23_PageWithinRange ==
  EffectsFlushed =>
    /\ currentPage >= 1
    /\ currentPage <= (IF totalPages < 1 THEN 1 ELSE totalPages)

\* C24: at most one AI request is in flight, and aiLoading is true while a
\* request is in flight, so that neither the Search button nor Enter starts
\* a second one.
C24_OneRequestInFlight ==
  /\ Cardinality(inFlight) <= 1
  /\ inFlight # {} => aiLoading

\* C25: the response of an earlier request never replaces the stored
\* response of a later request.
C25_NoStaleOverwrite ==
  [][ (storedAiResponse.k = "object" /\ storedAiResponse'.k = "object") =>
        storedAiResponse'.of >= storedAiResponse.of ]_vars

\* the step is a call of handleAIQuery
IsAiCall == aiCalls' = aiCalls + 1

\* C26: a submitted AI query eventually leaves aiLoading false and the
\* query input empty, whether its request yields a response of any status
\* or is rejected; a call with an empty or whitespace-only query sends no
\* request and changes no state of the component.
C26_SubmittedQuerySettles ==
  /\ (inFlight # {}) ~> (inFlight = {} /\ ~ aiLoading /\ aiQuery = <<>>)
  /\ [][ (IsAiCall /\ \A i \in 1..Len(aiQuery) : aiQuery[i] = " ") =>
          UNCHANGED <<loadedProducts, productsLoading, searchTerm,
                      selectedCategory, aiQuery, currentPage, itemsPerPage,
                      storedAiResponse, aiLoading, inFlight, effectDeps>> ]_vars
  /\ [][ (IsAiCall /\ \E i \in 1..Len(aiQuery) : aiQuery[i] # " ") =>
          \E r \in inFlight' : r \notin inFlight /\ r.query = aiQuery ]_vars

\* C26 witness: two queries were submitted, the first changed the search, the
\* second was answered with the body of a 500, and the component is idle
\* again with the input empty
C26_Witness ==
  /\ aiCalls = 2
  /\ inFlight = {}
  /\ ~ aiLoading
  /\ aiQuery = <<>>
  /\ searchTerm = <<"a">>
  /\ storedAiResponse.k = "object"
  /\ storedAiResponse.of = 2
  /\ storedAiResponse.body.status = 500

\* C27: when a request settles, a response with at least one recommended
\* product sets searchTerm to the submitted query, a response without one
\* leaves searchTerm and currentPage as they are, and a failed request sets
\* searchTerm to the submitted query and leaves the stored response as it
\* is; submitting a query does not change searchTerm.
C27_SearchFollowsResponse ==
  [][ /\ IsAiCall => searchTerm' = searchTerm
      /\ \A r \in inFlight :
           r \notin inFlight' =>
             IF storedAiResponse'.k = "object" /\ storedAiResponse'.of = r.id
             THEN IF HasRecommended(storedAiResponse'.body)
                  THEN searchTerm' = r.query
                  ELSE searchTerm' = searchTerm /\ currentPage' = currentPage
             ELSE /\ searchTerm' = r.query
                  /\ storedAiResponse' = storedAiResponse ]_vars

\* C27 witness: the second page is on screen, the stored response is the one
\* without recommended products of the only query, and there is no search
C27_Witness ==
  /\ aiCalls = 1
  /\ inFlight = {}
  /\ storedAiResponse.k = "object"
  /\ ~ HasRecommended(storedAiResponse.body)
  /\ searchTerm = <<>>
  /\ currentPage = 2

\* C28: when a response with recommended products has set searchTerm to the
\* query, every recommended product that is in the loaded list is in
\* filteredProducts.
C28_TableShowsRecommended ==
  [][ \A r \in inFlight :
        (/\ r \notin inFlight'
         /\ storedAiResponse'.k = "object"
         /\ storedAiResponse'.of = r.id
         /\ HasRecommended(storedAiResponse'.body)) =>
          LET recommended == storedAiResponse'.body.recommendedProducts.a
          IN  \A m \in 1..Len(recommended) :
                PlacesOf(loadedProducts', recommended[m]) # {} =>
                  PlacesOf(TableFilter(loadedProducts', searchTerm'),
                           recommended[m]) # {} ]_vars

\* the numbers of a result of getPageNumbers, in order
NumbersOf(items) == SelectSeq(items, LAMBDA x : x.k = "num")

\* C29: for totalPages >= 1 and currentPage in 1..totalPages the result of
\* getPageNumbers lists strictly increasing page numbers, among them 1,
\* totalPages and every page within 2 of currentPage; two neighbouring
\* numbers are consecutive, an ellipsis stands only between two listed
\* numbers that differ by more than 2 (a single missing page is listed
\* instead), and the result neither starts nor ends with an ellipsis.
C29_PageNumbersShape ==
  pageNumbers.k = "arr" =>
    LET items == pageNumbers.a
        total == pageInput.totalPages
        current == pageInput.currentPage
        listed == { items[i].n : i \in { j \in 1..Len(items) : items[j].k = "num" } }
    IN  /\ \A i \in 1..Len(items) : items[i].k = "num" \/ items[i] = Dots
        /\ Len(items) >= 1
        /\ items[1].k = "num" /\ items[Len(items)].k = "num"
        /\ \A i \in 1..(Len(NumbersOf(items)) - 1) :
             NumbersOf(items)[i].n < NumbersOf(items)[i + 1].n
        /\ 1 \in listed /\ total \in listed
        /\ \A n \in 1..total : (n >= current - 2 /\ n <= current + 2) => n \in listed
        /\ listed \subseteq 1..total
        /\ \A i \in 1..(Len(items) - 1) :
             /\ (items[i].k = "num" /\ items[i + 1].k = "num") =>
                  items[i + 1].n = items[i].n + 1
             /\ items[i].k = "str" =>
                  /\ items[i + 1].k = "num"
                  /\ items[i + 1].n - items[i - 1].n > 2

\* C29 witness: a result with a filled gap on the left and an ellipsis on
\* the right of the window around the current page
C29_Witness ==
  /\ pageNumbers.k = "arr"
  /\ pageInput.currentPage = 4
  /\ pageNumbers.a = << Num(1), Num(2), Num(3), Num(4), Num(5), Num(6), Dots,
                        Num(pageInput.totalPages) >>

\* C30: queryGemini guards only the parse step.  When the model's text is
\* valid JSON the call returns the parsed value unchanged; when it is not,
\* it returns {answer: the whole raw text, recommendedProducts: [],
\* suggestions: []}; when the model call fails, the same error is thrown to
\* the caller and no fallback result is returned.
C30_OnlyParseGuarded ==
  (clientPc = "done" /\ clientOutcome.k # "none") =>
    IF clientOutcome.k = "throw"
    THEN clientResult = [k |-> "thrown", error |-> clientOutcome.error]
    ELSE LET text == clientOutcome.toks
             isLiteral == Len(text) = 1 /\ text[1].t = "lit"
             isObject == /\ Len(text) >= 2
                         /\ text[1] = LB
                         /\ text[Len(text)] = RB
                         /\ \A i \in 2..(Len(text) - 1) : text[i].t = "member"
         IN  /\ clientResult.k = "returned"
             /\ isLiteral => clientResult.value = text[1].v
             /\ isObject =>
                  /\ clientResult.value.k = "object"
                  /\ Len(clientResult.value.members) = Len(text) - 2
                  /\ \A key \in {"answer", "recommendedProducts", "suggestions",
                                  "productSkus"} :
                       Property(clientResult.value.members, key) = Property(text, key)
             /\ (~ isLiteral /\ ~ isObject) =>
                  clientResult.value =
                    [answer |-> [k |-> "text", toks |-> text],
                     recommendedProducts |-> [k |-> "arr", a |-> <<>>],
                     suggestions |-> [k |-> "arr", a |-> <<>>]]

\* C30 witness: the model call failed and the caller got that error
C30_Witness ==
  /\ clientPc = "done"
  /\ clientOutcome.k = "throw"
  /\ clientResult.k = "thrown"
  /\ clientResult.error = clientOutcome.error
====
